---- MODULE Spec2Model ----
(***************************************************************************)
(* Model of the workflow engine of core/engine.py: the five graph nodes    *)
(* plan, decide, execute, handle_failure and complete, the conditional     *)
(* edge _should_continue, the retry policy of ExecutorAgent.handle_failure *)
(* and the dispatch selection of PlanningAgent.decide_next_tasks, over the *)
(* WorkflowState of core/state.py.                                         *)
(*                                                                         *)
(* The Planner, the Action Dispatcher and the Failure Advisor are the      *)
(* environment: the plan, every dispatch outcome and every advisor answer  *)
(* are chosen nondeterministically.                                        *)
(*                                                                         *)
(* DispatchSpec runs the same nodes on a plan of one task with the Action  *)
(* Dispatcher of core/executor.py and ExecutorAgent.execute_task in place  *)
(* of the chosen dispatch outcome: the handlers of the five action types,  *)
(* the retry decorator of _execute_api_call and the try/except of execute. *)
(*                                                                         *)
(* MergeSpec is the loop of WorkflowEngine.run that merges the partial     *)
(* update of every chunk of the stream into final_state, on updates that  *)
(* have the fields the nodes return, with values drawn from small sets.    *)
(***************************************************************************)
EXTENDS Integers, Sequences, FiniteSets, TLC

VARIABLES
    pc,                  \* the graph node that runs next
    context,             \* state["context"]: status, completed_at, metadata
    tasks,               \* state["tasks"]: the tasks in insertion order
    execution_history,   \* state["execution_history"]
    current_task,        \* state["current_task"]
    memory,              \* state["memory"]
    errors,              \* state["errors"]
    next_tasks,          \* state["next_tasks"]
    completed_tasks,     \* state["completed_tasks"]
    failed_tasks,        \* state["failed_tasks"]
    settings,            \* config.settings (max_retries)
    advisor_consulted,   \* whether the last handle_failure step called the LLM
    advisor_reply,       \* what the LLM replied in that step (None if not called)
    dispatch,            \* the call of ExecutorAgent.execute_task in progress
    final_state,         \* run(): the aggregate state collected from the stream
    node_state,          \* run(): the partial update of the last chunk merged
    chunks               \* run(): how many chunks of the stream were merged

vars == <<pc, context, tasks, execution_history, current_task, memory, errors,
          next_tasks, completed_tasks, failed_tasks, settings, advisor_consulted,
          advisor_reply, dispatch, final_state, node_state, chunks>>

\* the locals of the merge loop of run()
stream_vars == <<final_state, node_state, chunks>>

----------------------------------------------------------------------------
(* Bounds of the model. *)

\* largest retry budget tried for settings.max_retries and metadata max_retries
MaxBudget == 1
\* most dispatches the Action Dispatcher lets fail in one run
MaxFailures == 2
\* most dependencies one planned task declares
MaxDeps == 2

\* ids the Planner gives its tasks, in emission order
PlanIds == <<"A", "B", "C">>
\* an id no planned task carries (a dangling dependency)
MissingId == "X"
DepIds == {PlanIds[i] : i \in DOMAIN PlanIds} \cup {MissingId}

----------------------------------------------------------------------------
(* core/state.py *)

None == "None"

PENDING == "pending"
IN_PROGRESS == "in_progress"
COMPLETED == "completed"
FAILED == "failed"
SKIPPED == "skipped"
RETRYING == "retrying"
TaskStatus == {PENDING, IN_PROGRESS, COMPLETED, FAILED, SKIPPED, RETRYING}

\* the max_retries default of ExecutorAgent.handle_failure
DefaultMaxRetries == 3

\* metadata of a run: empty, or a max_retries override given through config
EmptyDict == [k \in {} |-> None]
NoMetadata == EmptyDict
MetadataChoices ==
    {NoMetadata} \cup {[max_retries |-> m] : m \in 0..MaxBudget}

create_initial_state(config) ==
    [context |-> [status |-> "running", completed_at |-> None, metadata |-> config],
     tasks |-> <<>>,
     execution_history |-> <<>>,
     current_task |-> None,
     memory |-> EmptyDict,
     errors |-> <<>>,
     next_tasks |-> <<>>,
     completed_tasks |-> <<>>,
     failed_tasks |-> <<>>]

----------------------------------------------------------------------------
(* Helpers for Python lists and the ordered tasks dict. *)

ToSet(s) == {s[i] : i \in DOMAIN s}

\* a plausible slip: the filter keeps every id
Without_nothing(s, id) == s

\* [x for x in s if x != id]
Without(s, id) == SelectSeq(s, LAMBDA x : x # id)

\* list(state["tasks"].keys())
Keys(ts) == [i \in DOMAIN ts |-> ts[i].task_id]

\* state["tasks"][id]
TaskOf(ts, id) == ts[CHOOSE i \in DOMAIN ts : ts[i].task_id = id]

\* {**state["tasks"], id: task}
PutTask(ts, id, task) ==
    [i \in DOMAIN ts |-> IF ts[i].task_id = id THEN task ELSE ts[i]]

\* the memory key f"task_{task_id}_result"
MemKey(id) == <<"task", id, "result">>

----------------------------------------------------------------------------
(* The environment: Planner output, dispatch outcomes, advisor replies. *)

DepChoices == {D \in SUBSET DepIds : Cardinality(D) <= MaxDeps}

\* a plan: the first n ids of PlanIds, each with a set of dependencies
\* (dangling, cyclic and self dependencies included)
Plans ==
    UNION {[1..n -> DepChoices] : n \in 0..Len(PlanIds)}

\* the results of ExecutorAgent.execute_task the engine is run on: success
\* with the data of the action, or failed with the error string (what the
\* data and the error of each action are is modelled by execute below)
Data == "data"
Err == "error"
DispatchOutcomes ==
    {[status |-> "success", data |-> Data, error |-> None],
     [status |-> "failed", data |-> None, error |-> Err]}

\* replies of the Failure Advisor LLM: a decision with one of the four
\* actions, a decision with another action, a reply without an "action" key,
\* or no usable reply (the call raises or the content is not JSON)
Unavailable == "unavailable"
NoAction == "no_action"
AdvisorReplies ==
    {"retry", "skip", "modify", "fail_workflow", "abort", NoAction, Unavailable}

\* number of failed dispatches recorded so far
FailedCount(h) == Cardinality({i \in DOMAIN h : h[i].status = "failed"})

----------------------------------------------------------------------------
(* agents/planner.py *)

\* a plausible slip: every known task with met dependencies is selected,
\* whether or not it already ran
decide_next_tasks_all_tasks(ts, completed, failed, available_tasks) ==
    SelectSeq(Keys(ts),
              LAMBDA id : TaskOf(ts, id).dependencies \subseteq ToSet(completed))

\* a plausible slip: every task that has not run is selected, whether or
\* not its dependencies are met
decide_next_tasks_no_deps(ts, completed, failed, available_tasks) ==
    SelectSeq(Keys(ts),
              LAMBDA id : id \notin ToSet(completed) /\ id \notin ToSet(failed))

\* a plausible slip: a Skipped dependency counts as satisfied
decide_next_tasks_skipped_satisfies(ts, completed, failed, available_tasks) ==
    SelectSeq(Keys(ts),
              LAMBDA id :
                /\ id \notin ToSet(completed)
                /\ id \notin ToSet(failed)
                /\ \A dep \in TaskOf(ts, id).dependencies :
                     \/ dep \in ToSet(completed)
                     \/ \E i \in DOMAIN ts : ts[i].task_id = dep /\ ts[i].status = SKIPPED)

\* a plausible slip: only the task that will be dispatched is selected
decide_next_tasks_first_only(ts, completed, failed, available_tasks) ==
    IF available_tasks = <<>> THEN <<>> ELSE <<available_tasks[1]>>

decide_next_tasks(ts, completed, failed, available_tasks) ==
    SelectSeq(available_tasks,
              LAMBDA id : /\ TaskOf(ts, id).dependencies \subseteq ToSet(completed)
                          /\ id \notin ToSet(completed)
                          /\ id \notin ToSet(failed))

----------------------------------------------------------------------------
(* agents/executor_agent.py *)

\* state["context"]["metadata"].get("max_retries", 3)
policy_max_retries(ctx) ==
    IF "max_retries" \in DOMAIN ctx.metadata
    THEN ctx.metadata.max_retries
    ELSE DefaultMaxRetries

\* a plausible slip: the hard ceiling is left to the advisor
handle_failure_no_ceiling(ctx, retry_count, reply) ==
    IF reply = Unavailable
    THEN [action |-> "retry", consulted |-> TRUE]
    ELSE [action |-> reply, consulted |-> TRUE]

\* a plausible slip: the ceiling test is off by one
handle_failure_off_by_one(ctx, retry_count, reply) ==
    LET max_retries == policy_max_retries(ctx)
    IN  IF retry_count > max_retries
        THEN [action |-> "fail_workflow", consulted |-> FALSE]
        ELSE IF reply = Unavailable
        THEN [action |-> IF retry_count < max_retries THEN "retry" ELSE "fail_workflow",
              consulted |-> TRUE]
        ELSE [action |-> reply, consulted |-> TRUE]

\* a plausible slip: the fallback for an unusable advisor reply is skip
handle_failure_default_skip(ctx, retry_count, reply) ==
    LET max_retries == policy_max_retries(ctx)
    IN  IF retry_count >= max_retries
        THEN [action |-> "fail_workflow", consulted |-> FALSE]
        ELSE IF reply = Unavailable
        THEN [action |-> "skip", consulted |-> TRUE]
        ELSE [action |-> reply, consulted |-> TRUE]

\* a plausible slip: modify is taken as "modify the config and retry"
handle_failure_modify_retries(ctx, retry_count, reply) ==
    LET max_retries == policy_max_retries(ctx)
    IN  IF retry_count >= max_retries
        THEN [action |-> "fail_workflow", consulted |-> FALSE]
        ELSE IF reply = Unavailable \/ reply = "modify"
        THEN [action |-> "retry", consulted |-> TRUE]
        ELSE [action |-> reply, consulted |-> TRUE]

\* the decision of ExecutorAgent.handle_failure and whether the LLM was asked
handle_failure(ctx, retry_count, reply) ==
    LET max_retries == policy_max_retries(ctx)
    IN  IF retry_count >= max_retries
        THEN [action |-> "fail_workflow", consulted |-> FALSE]
        ELSE IF reply = Unavailable
        THEN [action |-> IF retry_count < max_retries THEN "retry" ELSE "fail_workflow",
              consulted |-> TRUE]
        ELSE [action |-> reply, consulted |-> TRUE]

----------------------------------------------------------------------------
(* core/executor.py: the Action Dispatcher.  Configs are dicts from keys to  *)
(* values; every value, message and datum is a string, None is the null.     *)

ActionTypes == {"api_call", "db_query", "file_operation", "transform_data", "wait"}
\* action types the Planner may emit that ActionExecutor.execute does not know
UnknownTags == {"nonexistent", "send_email"}

\* stop_after_attempt(3) of the retry decorator of _execute_api_call
StopAfterAttempt == 3

\* every dict over some of the keys of fields, fields[k] the values of key k
Dicts(fields) ==
    UNION {[keys -> UNION {fields[k] : k \in keys}] : keys \in SUBSET DOMAIN fields}

WellTyped(fields, d) == \A k \in DOMAIN d : d[k] \in fields[k]

ApiFields == [method |-> {"GET", "post", "PATCH"}, url |-> {"http://api/items"}]
DbFields == [query |-> {"SELECT 1"}]
FileFields == [operation |-> {"read", "write", "delete", "list", "chmod"},
               path |-> {"/data/report"},
               content |-> {"text"}]
JsonNull == "null"
JsonObject == "{\"name\": 1}"
PlainText == "plain text"
DictValue == "dict(name=1)"
RenamedDict == "dict(title=1)"
TransformFields == [type |-> {"json", "xml"},
                    input |-> {None, JsonNull, JsonObject, PlainText, DictValue},
                    mapping |-> {"name->title"}]
WaitFields == [duration |-> {"0.5"}]

ConfigsOf(fields) == {d \in Dicts(fields) : WellTyped(fields, d)}

\* the action configs of the planned task
Configs ==
    ConfigsOf(ApiFields) \cup ConfigsOf(DbFields) \cup ConfigsOf(FileFields)
        \cup ConfigsOf(TransformFields) \cup ConfigsOf(WaitFields)

\* settings.database_url
DatabaseUrls == {None, "postgresql://db"}
\* what the HTTP request of one attempt meets
Responses == {"2xx", "5xx", "connect_error"}
\* what the path of a file operation is on disk
PathKinds == {"file", "directory", "absent"}

\* config.get(key, default)
Get(config, key, default) == IF key \in DOMAIN config THEN config[key] ELSE default

\* a handler returns a Result or raises
Return(data) ==
    [raised |-> FALSE, status |-> "success", data |-> data, error |-> None]
Raise(type, message) ==
    [raised |-> TRUE, status |-> type, data |-> None, error |-> message]
KeyError(key) == Raise("KeyError", "'" \o key \o "'")
ValueError(message) == Raise("ValueError", message)

\* str.upper() on the methods of ApiFields
Upper(text) == IF text = "post" THEN "POST" ELSE text

\* json.loads on the inputs of TransformFields: the value, or no parse
NoParse == "JSONDecodeError"
json_loads(text) ==
    IF text = JsonNull THEN None
    ELSE IF text = JsonObject THEN DictValue
    ELSE NoParse

IsStr(value) == value \in {JsonNull, JsonObject, PlainText}
IsDict(value) == value \in {DictValue, RenamedDict}

\* {mapping.get(k, k): v for k, v in data.items()} for the mapping of
\* TransformFields
Renamed(data) == IF data = DictValue THEN RenamedDict ELSE data

\* one attempt of _execute_api_call
execute_api_call(config, response) ==
    LET method == Upper(Get(config, "method", "GET"))
    IN  IF "url" \notin DOMAIN config THEN KeyError("url")
        ELSE IF method \notin {"GET", "POST", "PUT", "DELETE"}
        THEN ValueError("Unsupported HTTP method: " \o method)
        ELSE IF response = "connect_error"
        THEN Raise("ConnectError", "All connection attempts failed")
        ELSE IF response = "5xx"
        THEN Raise("HTTPStatusError", "Server error for url " \o config["url"])
        ELSE Return("response of " \o method \o " " \o config["url"])

\* what the retry decorator raises once the last attempt has raised
RetryError(outcome) == Raise("RetryError", "RetryError[" \o outcome.status \o "]")

execute_db_query(config, database_url) ==
    IF database_url = None THEN ValueError("Database URL not configured")
    ELSE IF "query" \notin DOMAIN config THEN KeyError("query")
    ELSE Return("rows of " \o config["query"])

execute_file_operation(config, kind) ==
    IF "operation" \notin DOMAIN config THEN KeyError("operation")
    ELSE IF "path" \notin DOMAIN config THEN KeyError("path")
    ELSE LET operation == config["operation"]
             path == config["path"]
         IN  IF operation = "read"
             THEN IF kind = "absent"
                  THEN Raise("FileNotFoundError", "File not found: " \o path)
                  ELSE IF kind = "directory"
                  THEN Raise("IsADirectoryError", "Is a directory: " \o path)
                  ELSE Return("content of " \o path)
             ELSE IF operation = "write"
             THEN IF "content" \notin DOMAIN config THEN KeyError("content")
                  ELSE IF kind = "directory"
                  THEN Raise("IsADirectoryError", "Is a directory: " \o path)
                  ELSE Return("written " \o path)
             ELSE IF operation = "delete"
             THEN IF kind = "directory"
                  THEN Raise("IsADirectoryError", "Is a directory: " \o path)
                  ELSE Return("deleted " \o path)
             ELSE IF operation = "list"
             THEN IF kind = "directory"
                  THEN Return("files of " \o path)
                  ELSE ValueError("Path is not a directory: " \o path)
             ELSE ValueError("Unknown file operation: " \o operation)

execute_transform(config) ==
    LET transform_type == Get(config, "type", "json")
    IN  IF "input" \notin DOMAIN config THEN KeyError("input")
        ELSE IF transform_type = "json"
        THEN LET input_data == config["input"]
                 data == IF IsStr(input_data) /\ json_loads(input_data) # NoParse
                         THEN json_loads(input_data)
                         ELSE input_data
                 transformed == IF "mapping" \in DOMAIN config /\ IsDict(data)
                                THEN Renamed(data)
                                ELSE data
             IN  Return(transformed)
        ELSE ValueError("Unknown transform type: " \o transform_type)

execute_wait(config) == Return("waited " \o Get(config, "duration", "1.0"))

\* the handler ActionExecutor.execute calls for the action type, api_call
\* apart; env is what the handler meets outside the config
execute_handler(action_type, config, database_url, kind) ==
    IF action_type = "db_query" THEN execute_db_query(config, database_url)
    ELSE IF action_type = "file_operation" THEN execute_file_operation(config, kind)
    ELSE IF action_type = "transform_data" THEN execute_transform(config)
    ELSE IF action_type = "wait" THEN execute_wait(config)
    ELSE ValueError("Unknown action type: " \o action_type)

\* a plausible slip: the handler is called outside the try
execute_result_reraises(outcome) == outcome

\* the try/except of ActionExecutor.execute around the handler
execute_result(outcome) ==
    IF outcome.raised
    THEN [raised |-> FALSE, status |-> "error", data |-> None, error |-> outcome.error]
    ELSE outcome

\* what ExecutorAgent.execute_task makes of what ActionExecutor.execute did
execute_task(outcome) ==
    IF outcome.raised \/ outcome.status = "error"
    THEN [status |-> "failed", data |-> None, error |-> outcome.error]
    ELSE [status |-> "success", data |-> outcome.data, error |-> None]

----------------------------------------------------------------------------
(* core/engine.py *)

\* a plausible slip: only tasks that are still Pending count as available
Available_pending_only(ts, completed, failed) ==
    SelectSeq(Keys(ts),
              LAMBDA id : /\ id \notin ToSet(completed)
                          /\ id \notin ToSet(failed)
                          /\ TaskOf(ts, id).status = PENDING
                          /\ TaskOf(ts, id).dependencies \subseteq ToSet(completed))

\* the available list of _decide_node
Available(ts, completed, failed) ==
    SelectSeq(Keys(ts),
              LAMBDA id : /\ id \notin ToSet(completed)
                          /\ id \notin ToSet(failed)
                          /\ TaskOf(ts, id).dependencies \subseteq ToSet(completed))

\* a plausible slip: the most recent failure is looked at first
Retryable_newest_first(ts, failed) ==
    LET r == SelectSeq(failed,
                       LAMBDA id : TaskOf(ts, id).retry_count < settings.max_retries)
    IN  [k \in 1..Len(r) |-> r[Len(r) + 1 - k]]

\* failed tasks that still have retry budget, in failed_tasks order
Retryable(ts, failed) ==
    SelectSeq(failed, LAMBDA id : TaskOf(ts, id).retry_count < settings.max_retries)

\* a plausible slip: failed tasks are looked at before ready ones
should_continue_failures_first(ts, nxt, failed) ==
    IF Retryable(ts, failed) # <<>> THEN "handle_failure"
    ELSE IF nxt = <<>> THEN "complete"
    ELSE "execute"

\* the conditional edge _should_continue
should_continue(ts, nxt, failed) ==
    IF nxt = <<>>
    THEN IF Retryable(ts, failed) # <<>> THEN "handle_failure" ELSE "complete"
    ELSE "execute"

Init ==
    /\ pc = "plan"
    /\ \E config \in MetadataChoices :
         LET s == create_initial_state(config)
         IN  /\ context = s.context
             /\ tasks = s.tasks
             /\ execution_history = s.execution_history
             /\ current_task = s.current_task
             /\ memory = s.memory
             /\ errors = s.errors
             /\ next_tasks = s.next_tasks
             /\ completed_tasks = s.completed_tasks
             /\ failed_tasks = s.failed_tasks
    /\ settings \in {[max_retries |-> m] : m \in 0..MaxBudget}
    /\ advisor_consulted = FALSE
    /\ advisor_reply = None
    /\ dispatch = None
    /\ final_state = None
    /\ node_state = None
    /\ chunks = 0

\* _plan_node, then the edge plan -> decide
plan_node ==
    /\ pc = "plan"
    /\ \/ \E plan \in Plans :
            /\ tasks' = [i \in DOMAIN plan |->
                           [task_id |-> PlanIds[i],
                            status |-> PENDING,
                            dependencies |-> plan[i],
                            retry_count |-> 0,
                            error |-> None,
                            result |-> None]]
            /\ next_tasks' = SelectSeq([i \in DOMAIN plan |-> PlanIds[i]],
                                       LAMBDA id : \E i \in DOMAIN plan :
                                                     PlanIds[i] = id /\ plan[i] = {})
            /\ UNCHANGED <<errors, context>>
       \/ \* the Planner raises, or a descriptor lacks a required key
          /\ errors' = Append(errors, [step |-> "plan", error |-> Err])
          /\ context' = [context EXCEPT !.status = "failed"]
          /\ UNCHANGED <<tasks, next_tasks>>
    /\ pc' = "decide"
    /\ advisor_consulted' = FALSE
    /\ advisor_reply' = None
    /\ UNCHANGED <<execution_history, current_task, memory, completed_tasks,
                   failed_tasks, settings, dispatch, stream_vars>>

\* a plausible slip: Decide also records the task it picked for Execute
decide_node_sets_current_task ==
    /\ pc = "decide"
    /\ LET available == Available(tasks, completed_tasks, failed_tasks)
       IN  next_tasks' = IF available = <<>>
                         THEN <<>>
                         ELSE decide_next_tasks(tasks, completed_tasks, failed_tasks,
                                                available)
    /\ current_task' = IF next_tasks' = <<>> THEN None ELSE next_tasks'[1]
    /\ pc' = should_continue(tasks, next_tasks', failed_tasks)
    /\ advisor_consulted' = FALSE
    /\ advisor_reply' = None
    /\ UNCHANGED <<context, tasks, execution_history, memory, errors,
                   completed_tasks, failed_tasks, settings, dispatch, stream_vars>>

\* _decide_node, then the conditional edge _should_continue
decide_node ==
    /\ pc = "decide"
    /\ LET available == Available(tasks, completed_tasks, failed_tasks)
       IN  next_tasks' = IF available = <<>>
                         THEN <<>>
                         ELSE decide_next_tasks(tasks, completed_tasks, failed_tasks,
                                                available)
    /\ pc' = should_continue(tasks, next_tasks', failed_tasks)
    /\ advisor_consulted' = FALSE
    /\ advisor_reply' = None
    /\ UNCHANGED <<context, tasks, execution_history, current_task, memory, errors,
                   completed_tasks, failed_tasks, settings, dispatch, stream_vars>>

\* a plausible slip: the last ready task is taken
current_task_id_last(nxt) == nxt[Len(nxt)]

\* next_tasks[0], the task _execute_node dispatches
current_task_id(nxt) == nxt[1]

\* a plausible slip: the data is stored in memory only
completed_task_without_result(task, result) ==
    [task EXCEPT !.status = COMPLETED, !.error = None]

\* a plausible slip: the old error stays on the task
completed_task_keeps_error(task, result) ==
    [task EXCEPT !.status = COMPLETED, !.result = result.data]

\* the task after a successful dispatch
completed_task(task, result) ==
    [task EXCEPT !.status = COMPLETED, !.result = result.data, !.error = None]

\* a plausible slip: the error goes to the history only
failed_task_without_error(task, result) == [task EXCEPT !.status = FAILED]

\* the task after a failed dispatch
failed_task(task, result) ==
    [task EXCEPT !.status = FAILED, !.error = result.error]

\* what _execute_node returns for the result of execute_task: the changes to
\* the dispatched task, the lists, memory and the history
execute_update(result) ==
    LET id == current_task_id(next_tasks)
        task == [TaskOf(tasks, id) EXCEPT !.status = IN_PROGRESS]
        remaining_tasks == Without(next_tasks, id)
    IN  /\ IF result.status = "success"
           THEN /\ tasks' = PutTask(tasks, id, completed_task(task, result))
                /\ completed_tasks' = Append(completed_tasks, id)
                /\ memory' = (MemKey(id) :> result.data) @@ memory
                /\ execution_history' =
                     Append(execution_history,
                            [task_id |-> id, status |-> "success",
                             result |-> result.data])
                /\ UNCHANGED failed_tasks
           ELSE /\ tasks' = PutTask(tasks, id, failed_task(task, result))
                /\ failed_tasks' = Append(failed_tasks, id)
                /\ execution_history' =
                     Append(execution_history,
                            [task_id |-> id, status |-> "failed",
                             error |-> result.error])
                /\ UNCHANGED <<completed_tasks, memory>>
        /\ next_tasks' = remaining_tasks
        /\ current_task' = None

\* _execute_node, then the edge execute -> decide
execute_node ==
    /\ pc = "execute"
    /\ IF next_tasks = <<>>
       THEN UNCHANGED <<tasks, completed_tasks, failed_tasks, memory,
                        execution_history, next_tasks, current_task>>
       ELSE \E result \in DispatchOutcomes :
              /\ result.status = "failed" =>
                    FailedCount(execution_history) < MaxFailures
              /\ execute_update(result)
    /\ pc' = "decide"
    /\ advisor_consulted' = FALSE
    /\ advisor_reply' = None
    /\ UNCHANGED <<context, errors, settings, dispatch, stream_vars>>

\* datetime.now() as read by a node: the readings of two nodes are two times
Now(node) == "now@" \o node

\* a plausible slip: the retry leaves the old error on the task
retried_task_keeps_error(task) ==
    [task EXCEPT !.retry_count = @ + 1, !.status = RETRYING]

\* the task after a retry decision
retried_task(task) ==
    [task EXCEPT !.retry_count = @ + 1, !.status = RETRYING, !.error = None]

\* the task after a skip decision
skipped_task(task) == [task EXCEPT !.status = SKIPPED]

\* _handle_failure_node, then the edge handle_failure -> decide
handle_failure_node ==
    /\ pc = "handle_failure"
    /\ IF failed_tasks = <<>>
       THEN /\ pc' = "decide"
            /\ advisor_consulted' = FALSE
            /\ advisor_reply' = None
            /\ UNCHANGED <<context, tasks, failed_tasks, next_tasks, current_task>>
       ELSE IF Retryable(tasks, failed_tasks) = <<>>
       THEN \* all failed tasks exceeded retries
            /\ context' = [context EXCEPT !.status = "failed",
                                          !.completed_at = Now("handle_failure")]
            /\ pc' = "decide"
            /\ advisor_consulted' = FALSE
            /\ advisor_reply' = None
            /\ UNCHANGED <<tasks, failed_tasks, next_tasks, current_task>>
       ELSE LET task_to_retry == Retryable(tasks, failed_tasks)[1]
                task == TaskOf(tasks, task_to_retry)
            IN  \E reply \in AdvisorReplies :
                  LET decision == handle_failure(context, task.retry_count, reply)
                  IN  /\ advisor_consulted' = decision.consulted
                      /\ advisor_reply' = IF decision.consulted THEN reply ELSE None
                      /\ IF decision.action = NoAction
                         THEN \* decision["action"] raises: the run aborts
                              /\ pc' = "crashed"
                              /\ UNCHANGED <<context, tasks, failed_tasks, next_tasks,
                                             current_task>>
                         ELSE IF decision.action = "retry"
                         THEN /\ tasks' = PutTask(tasks, task_to_retry,
                                                  retried_task(task))
                              /\ failed_tasks' = Without(failed_tasks, task_to_retry)
                              /\ next_tasks' = <<task_to_retry>>
                              /\ current_task' = task_to_retry
                              /\ pc' = "decide"
                              /\ UNCHANGED <<context>>
                         ELSE IF decision.action = "skip"
                         THEN /\ tasks' = PutTask(tasks, task_to_retry,
                                                  skipped_task(task))
                              /\ failed_tasks' = Without(failed_tasks, task_to_retry)
                              /\ pc' = "decide"
                              /\ UNCHANGED <<context, next_tasks, current_task>>
                         ELSE \* fail_workflow, and every other action
                              /\ context' = [context EXCEPT
                                               !.status = "failed",
                                               !.completed_at = Now("handle_failure")]
                              /\ pc' = "decide"
                              /\ UNCHANGED <<tasks, failed_tasks, next_tasks,
                                             current_task>>
    /\ UNCHANGED <<execution_history, memory, errors, completed_tasks, settings,
                   dispatch, stream_vars>>

\* a plausible slip: the failed count is not looked at
final_status_ignores_failed(context_status, failed_count) ==
    IF context_status = "failed" THEN "failed" ELSE "completed"

\* a plausible slip: the failed count is tested after, not before, the forced
\* failure, and overrides it
final_status_failed_count_wins(context_status, failed_count) ==
    IF failed_count > 0 THEN "completed_with_errors"
    ELSE IF context_status = "failed" THEN "failed"
    ELSE "completed"

\* a plausible slip: tasks left in failed_tasks fail the whole workflow
final_status_failed_tasks_fail(context_status, failed_count) ==
    IF context_status = "failed" \/ failed_count > 0 THEN "failed" ELSE "completed"

\* a plausible slip: the status is recomputed from the counts alone
final_status_forgets_forced_failure(context_status, failed_count) ==
    IF failed_count > 0 THEN "completed_with_errors" ELSE "completed"

\* the status computed by _complete_node
final_status(context_status, failed_count) ==
    IF context_status = "failed" THEN "failed"
    ELSE IF failed_count > 0 THEN "completed_with_errors"
    ELSE "completed"

\* _complete_node, then the edge complete -> END
complete_node ==
    /\ pc = "complete"
    /\ LET failed_count == Len(failed_tasks)
           status == final_status(context.status, failed_count)
       IN  context' = [context EXCEPT !.status = status,
                                      !.completed_at = Now("complete")]
    /\ pc' = "END"
    /\ advisor_consulted' = FALSE
    /\ advisor_reply' = None
    /\ UNCHANGED <<tasks, execution_history, current_task, memory, errors, next_tasks,
                   completed_tasks, failed_tasks, settings, dispatch, stream_vars>>

\* execute_task has not returned anything yet
NoOutcome == [raised |-> FALSE, status |-> None, data |-> None, error |-> None]

\* the plan of one task without dependencies, its action, and the database
\* setting of the process
Dispatches ==
    [action_type : ActionTypes \cup UnknownTags,
     action_config : Configs,
     database_url : DatabaseUrls,
     attempts : {0},
     outcome : {NoOutcome}]

\* the state _plan_node leaves for a plan of one task
DispatchInit ==
    /\ pc = "decide"
    /\ \E config \in MetadataChoices :
         LET s == create_initial_state(config)
         IN  /\ context = s.context
             /\ execution_history = s.execution_history
             /\ current_task = s.current_task
             /\ memory = s.memory
             /\ errors = s.errors
             /\ completed_tasks = s.completed_tasks
             /\ failed_tasks = s.failed_tasks
    /\ tasks = <<[task_id |-> PlanIds[1],
                  status |-> PENDING,
                  dependencies |-> {},
                  retry_count |-> 0,
                  error |-> None,
                  result |-> None]>>
    /\ next_tasks = <<PlanIds[1]>>
    /\ settings \in {[max_retries |-> m] : m \in 0..MaxBudget}
    /\ advisor_consulted = FALSE
    /\ advisor_reply = None
    /\ dispatch \in Dispatches
    /\ final_state = None
    /\ node_state = None
    /\ chunks = 0

\* _execute_node up to the return of ActionExecutor.execute, for every action
\* type but api_call
execute ==
    /\ pc = "execute"
    /\ next_tasks # <<>>
    /\ dispatch.action_type # "api_call"
    /\ \E kind \in PathKinds :
         LET outcome == execute_handler(dispatch.action_type, dispatch.action_config,
                                        dispatch.database_url, kind)
         IN  /\ outcome.raised => FailedCount(execution_history) < MaxFailures
             /\ dispatch' = [dispatch EXCEPT !.attempts = 1,
                                             !.outcome = execute_result(outcome)]
    /\ pc' = "dispatched"
    /\ advisor_consulted' = FALSE
    /\ advisor_reply' = None
    /\ UNCHANGED <<context, tasks, execution_history, current_task, memory, errors,
                   next_tasks, completed_tasks, failed_tasks, settings, stream_vars>>

\* one attempt of _execute_api_call under its retry decorator: an attempt
\* that raises is repeated until stop_after_attempt, then RetryError is raised
\* into ActionExecutor.execute
api_call_attempt ==
    /\ pc = "execute"
    /\ next_tasks # <<>>
    /\ dispatch.action_type = "api_call"
    /\ \E response \in Responses :
         LET outcome == execute_api_call(dispatch.action_config, response)
             attempt_number == dispatch.attempts + 1
         IN  /\ outcome.raised => FailedCount(execution_history) < MaxFailures
             /\ IF outcome.raised /\ attempt_number < StopAfterAttempt
                THEN /\ dispatch' = [dispatch EXCEPT !.attempts = attempt_number,
                                                    !.outcome = outcome]
                     /\ pc' = "execute"
                ELSE /\ dispatch' =
                          [dispatch EXCEPT
                             !.attempts = attempt_number,
                             !.outcome = execute_result(IF outcome.raised
                                                        THEN RetryError(outcome)
                                                        ELSE outcome)]
                     /\ pc' = "dispatched"
    /\ advisor_consulted' = FALSE
    /\ advisor_reply' = None
    /\ UNCHANGED <<context, tasks, execution_history, current_task, memory, errors,
                   next_tasks, completed_tasks, failed_tasks, settings, stream_vars>>

\* the rest of _execute_node once execute_task has its result, then the edge
\* execute -> decide
execute_node_return ==
    /\ pc = "dispatched"
    /\ execute_update(execute_task(dispatch.outcome))
    /\ dispatch' = [dispatch EXCEPT !.attempts = 0]
    /\ pc' = "decide"
    /\ advisor_consulted' = FALSE
    /\ advisor_reply' = None
    /\ UNCHANGED <<context, errors, settings, stream_vars>>

Next ==
    \/ plan_node
    \/ decide_node
    \/ execute_node
    \/ handle_failure_node
    \/ complete_node

Spec == Init /\ [][Next]_vars

\* the graph runtime always runs the next node of an unfinished run
FairSpec == Spec /\ WF_vars(Next)

\* the run of a plan of one task, with the Action Dispatcher in place of the
\* environment's choice of the dispatch outcome
DispatchNext ==
    \/ decide_node
    \/ execute
    \/ api_call_attempt
    \/ execute_node_return
    \/ handle_failure_node
    \/ complete_node

DispatchSpec == DispatchInit /\ [][DispatchNext]_vars

----------------------------------------------------------------------------
(* WorkflowEngine.run: the loop that merges the partial update of every     *)
(* chunk of the stream into final_state.  A value carries its Python type   *)
(* beside its items, so that isinstance(value, dict) can be computed; a     *)
(* task is written as its status, a dict as the function of its keys (the   *)
(* insertion order of the keys is left out).                                *)

\* most chunks of the stream merged in one run
MaxMerges == 2

DictOf(items) == [type |-> "dict", items |-> items]
ListOf(items) == [type |-> "list", items |-> items]
NoneValue == [type |-> "NoneType", items |-> <<>>]
StrOf(text) == [type |-> "str", items |-> <<text>>]

\* isinstance(value, dict)
isinstance_dict(value) == value.type = "dict"

\* an entry of execution_history
HistoryEntry(id) == [task_id |-> id, status |-> "success", result |-> Data]

\* initial_state of run(): create_initial_state
initial_state ==
    LET s == create_initial_state(NoMetadata)
    IN  [context |-> DictOf([status |-> s.context.status,
                             completed_at |-> s.context.completed_at]),
         tasks |-> DictOf(EmptyDict),
         execution_history |-> ListOf(s.execution_history),
         current_task |-> NoneValue,
         memory |-> DictOf(s.memory),
         errors |-> ListOf(s.errors),
         next_tasks |-> ListOf(s.next_tasks),
         completed_tasks |-> ListOf(s.completed_tasks),
         failed_tasks |-> ListOf(s.failed_tasks)]

\* the aggregate in the middle of a run: the first task completed, the second
\* one is still to be planned
running_state ==
    [initial_state EXCEPT
       !.tasks = DictOf(PlanIds[1] :> COMPLETED),
       !.memory = DictOf(MemKey(PlanIds[1]) :> Data),
       !.execution_history = ListOf(<<HistoryEntry(PlanIds[1])>>),
       !.completed_tasks = ListOf(<<PlanIds[1]>>),
       !.failed_tasks = ListOf(<<PlanIds[3]>>),
       !.next_tasks = ListOf(<<PlanIds[1]>>)]

\* the values a node may return for a field
UpdateValues ==
    [tasks |-> {DictOf(PlanIds[1] :> FAILED), DictOf(PlanIds[2] :> PENDING)},
     memory |-> {DictOf(MemKey(PlanIds[1]) :> None),
                 DictOf(MemKey(PlanIds[2]) :> Data)},
     context |-> {DictOf(EmptyDict), DictOf([status |-> "failed"]),
                  DictOf([completed_at |-> Now("complete")])},
     execution_history |-> {ListOf(<<>>), ListOf(<<HistoryEntry(PlanIds[2])>>)},
     errors |-> {ListOf(<<>>), ListOf(<<[step |-> "plan", error |-> Err]>>)},
     next_tasks |-> {ListOf(<<>>), ListOf(<<PlanIds[2]>>)},
     completed_tasks |-> {ListOf(<<>>), ListOf(<<PlanIds[2]>>)},
     failed_tasks |-> {ListOf(<<>>), ListOf(<<PlanIds[2]>>)},
     current_task |-> {NoneValue, StrOf(PlanIds[2])}]

\* the fields of the state, in the order of WorkflowState
UpdateFields ==
    <<"context", "tasks", "execution_history", "current_task", "memory", "errors",
      "next_tasks", "completed_tasks", "failed_tasks">>

\* the sets of fields in the dicts the nodes return
ReturnShapes ==
    {{},                                                \* nothing to do
     {"tasks", "next_tasks"},                           \* _plan_node
     {"errors", "context"},                             \* _plan_node, failure
     {"tasks", "completed_tasks", "memory", "execution_history", "next_tasks",
      "current_task"},                                  \* _execute_node, success
     {"tasks", "failed_tasks", "execution_history", "next_tasks",
      "current_task"},                                  \* _execute_node, failure
     {"next_tasks"},                                    \* _decide_node
     {"tasks", "failed_tasks", "next_tasks", "current_task"},  \* retry
     {"tasks", "failed_tasks"},                         \* skip
     {"context"}}                                       \* fail_workflow, _complete_node

\* the partial updates that hold the fields of shape among the first n fields
RECURSIVE UpdatesOver(_, _)
UpdatesOver(n, shape) ==
    IF n = 0
    THEN {EmptyDict}
    ELSE IF UpdateFields[n] \in shape
    THEN {(UpdateFields[n] :> value) @@ update :
            value \in UpdateValues[UpdateFields[n]],
            update \in UpdatesOver(n - 1, shape)}
    ELSE UpdatesOver(n - 1, shape)

\* the partial updates: a dict of one of the shapes, with a value per field
Updates == UNION {UpdatesOver(Len(UpdateFields), shape) : shape \in ReturnShapes}

\* a plausible slip: the returned dict takes the place of the old one
dict_update_replaces(d, other) == other

\* d.update(other)
dict_update(d, other) ==
    [k \in DOMAIN d \cup DOMAIN other |-> IF k \in DOMAIN other THEN other[k] ELSE d[k]]

\* the merge of one chunk: for key, value in node_state.items()
merge_node_state(state, update) ==
    [key \in DOMAIN state \cup DOMAIN update |->
       IF key \notin DOMAIN update
       THEN state[key]
       ELSE IF isinstance_dict(update[key]) /\ key \in DOMAIN state
       THEN [state[key] EXCEPT !.items = dict_update(@, update[key].items)]
       ELSE update[key]]

\* the state of run() when it starts to read the stream
MergeInit ==
    /\ pc = "astream"
    /\ LET s == create_initial_state(NoMetadata)
       IN  /\ context = s.context
           /\ tasks = s.tasks
           /\ execution_history = s.execution_history
           /\ current_task = s.current_task
           /\ memory = s.memory
           /\ errors = s.errors
           /\ next_tasks = s.next_tasks
           /\ completed_tasks = s.completed_tasks
           /\ failed_tasks = s.failed_tasks
    /\ settings = [max_retries |-> DefaultMaxRetries]
    /\ advisor_consulted = FALSE
    /\ advisor_reply = None
    /\ dispatch = None
    /\ final_state \in {initial_state, running_state}
    /\ node_state = None
    /\ chunks = 0

\* one turn of the loop of run(): the next chunk of the stream is merged
astream_chunk ==
    /\ pc = "astream"
    /\ chunks < MaxMerges
    /\ \E update \in Updates :
         /\ node_state' = update
         /\ final_state' = merge_node_state(final_state, update)
    /\ chunks' = chunks + 1
    /\ UNCHANGED <<pc, context, tasks, execution_history, current_task, memory,
                   errors, next_tasks, completed_tasks, failed_tasks, settings,
                   advisor_consulted, advisor_reply, dispatch>>

MergeNext == astream_chunk

MergeSpec == MergeInit /\ [][MergeNext]_vars

TypeOK ==
    /\ pc \in {"plan", "decide", "execute", "dispatched", "handle_failure", "complete",
              "END", "crashed"}
    /\ context.status \in {"running", "completed", "completed_with_errors", "failed"}
    /\ \A i \in DOMAIN tasks : tasks[i].status \in TaskStatus
    /\ advisor_consulted \in BOOLEAN

----------------------------------------------------------------------------
(* Properties. *)

NoDuplicates(s) == \A i, j \in DOMAIN s : s[i] = s[j] => i = j

TerminalStatus == {"completed", "completed_with_errors", "failed"}

\* an Execute step dispatched a task
Dispatched == Len(execution_history') = Len(execution_history) + 1
\* the id of the task the step dispatched
DispatchedId == execution_history'[Len(execution_history')].task_id

\* C1: in every reachable state completed_tasks and failed_tasks are
\* disjoint, hold only keys of tasks, and hold no id twice.
C1_ListsConsistent ==
    /\ ToSet(completed_tasks) \cap ToSet(failed_tasks) = {}
    /\ ToSet(completed_tasks) \cup ToSet(failed_tasks) \subseteq ToSet(Keys(tasks))
    /\ NoDuplicates(completed_tasks)
    /\ NoDuplicates(failed_tasks)

\* a run in which one task completed, another failed and a third is pending
C1_Witness ==
    /\ completed_tasks # <<>>
    /\ failed_tasks # <<>>
    /\ Len(tasks) > Len(completed_tasks) + Len(failed_tasks)

\* C2: whenever Execute dispatches a task (sets it InProgress), every
\* dependency of that task is in completed_tasks at that moment.
C2_DepsCompletedAtDispatch ==
    [][Dispatched =>
         TaskOf(tasks, DispatchedId).dependencies \subseteq ToSet(completed_tasks)]_vars

\* a task that has dependencies was dispatched
C2_Witness ==
    \E i \in DOMAIN execution_history :
        TaskOf(tasks, execution_history[i].task_id).dependencies # {}

\* C3: a task's retry_count never decreases from one step to the next and
\* never exceeds max_retries (the Driver's setting and the policy's budget).
C3_RetryCountBounded ==
    [][\A i \in DOMAIN tasks' :
          /\ tasks'[i].retry_count <= settings'.max_retries
          /\ tasks'[i].retry_count <= policy_max_retries(context')
          /\ i \in DOMAIN tasks => tasks'[i].retry_count >= tasks[i].retry_count]_vars

\* a task was retried until its budget was used up, and failed again
C3_Witness ==
    \E i \in DOMAIN tasks :
        /\ tasks[i].retry_count >= 1
        /\ tasks[i].retry_count = settings.max_retries
        /\ tasks[i].status = FAILED

\* C4: when a dispatch fails while the task's retry_count equals
\* max_retries, the run ends with context.status = "failed".
C4_ExhaustedFailureFailsRun ==
    (/\ pc = "END"
     /\ \E i \in DOMAIN tasks :
          /\ tasks[i].status = FAILED
          /\ tasks[i].retry_count = settings.max_retries
          /\ tasks[i].retry_count = policy_max_retries(context))
    => context.status = "failed"

\* C5: every run eventually reaches Complete (and so the end of the graph),
\* whatever the dispatch outcomes and whatever decision the advisor returns;
\* a reply that is no decision at all (pc = "crashed") is outside the claim.
C5_ReachesComplete == <>(pc = "END" \/ pc = "crashed")

\* C6: once context.status has a terminal value, no task is dispatched, the
\* advisor is not consulted, and tasks, completed_tasks and failed_tasks do
\* not change.
C6_TerminalIsFinal ==
    [][context.status \in TerminalStatus =>
         /\ ~Dispatched
         /\ ~advisor_consulted'
         /\ tasks' = tasks
         /\ completed_tasks' = completed_tasks
         /\ failed_tasks' = failed_tasks]_vars

\* C7: a task whose status is Skipped keeps that status (and so is never
\* dispatched again).
C7_SkippedIsFinal ==
    [][\A i \in DOMAIN tasks :
          tasks[i].status = SKIPPED => tasks'[i].status = SKIPPED]_vars

\* C8: whenever Execute dispatches a task, the task's status just before was
\* Pending or Retrying.
C8_DispatchedFromPendingOrRetrying ==
    [][Dispatched =>
         TaskOf(tasks, DispatchedId).status \in {PENDING, RETRYING}]_vars

\* C9: a run that ends while some task is neither Completed, Failed nor
\* Skipped (the task is blocked for good) has an entry in errors.
C9_StallIsReported ==
    (/\ pc = "END"
     /\ \E i \in DOMAIN tasks : tasks[i].status \notin {COMPLETED, FAILED, SKIPPED})
    => errors # <<>>

\* C10 as claimed: the final status is "completed" iff no failure ever
\* occurred: no failed dispatch in execution_history, no task Failed or
\* Skipped, and the workflow was not forced to "failed".
C10_CompletedIffNoFailureEver ==
    pc = "END" =>
        (context.status = "completed"
         <=> /\ FailedCount(execution_history) = 0
             /\ \A i \in DOMAIN tasks : tasks[i].status \notin {FAILED, SKIPPED}
             /\ context.status # "failed")

\* C10 as amended: Complete sets the status to "completed" iff, when it
\* runs, no task is Failed or Skipped and no earlier step has set
\* context.status to "failed"; failed dispatches of tasks that completed
\* later do not count.
C10_CompletedIffNoFailureLeft ==
    [][pc = "complete" =>
         (context'.status = "completed"
          <=> /\ \A i \in DOMAIN tasks : tasks[i].status \notin {FAILED, SKIPPED}
              /\ context.status # "failed")]_vars

\* a run that ended "completed" although a dispatch had failed
C10_Witness ==
    /\ pc = "END"
    /\ context.status = "completed"
    /\ FailedCount(execution_history) > 0

\* C11: once a step has set context.status to "failed" it stays "failed",
\* through Complete too, whatever tasks complete or fail in between.
C11_ForcedFailureSticks ==
    [][context.status = "failed" => context'.status = "failed"]_vars

\* a run forced to "failed" that reached the end with a task still in
\* failed_tasks and another one completed
C11_Witness ==
    /\ pc = "END"
    /\ context.status = "failed"
    /\ failed_tasks # <<>>
    /\ completed_tasks # <<>>

\* the first failed task with retry budget left, the one HandleFailure takes
HandledTask == TaskOf(tasks, Retryable(tasks, failed_tasks)[1])

\* the step turns context.status into "failed"
BecomesFailed == context.status # "failed" /\ context'.status = "failed"

RetryCounts == 0..(DefaultMaxRetries + 1)

\* the four actions of a well-formed advisor decision
DecisionActions == {"retry", "skip", "modify", "fail_workflow"}

\* C13: handle_failure returns fail_workflow whenever retry_count >=
\* max_retries, for every advisor reply and without calling the advisor; a
\* HandleFailure step on such a task fails the workflow without consulting it.
C13_CeilingIsUnconditional ==
    /\ [](\A rc \in RetryCounts, reply \in AdvisorReplies :
            rc >= policy_max_retries(context) =>
                handle_failure(context, rc, reply) =
                    [action |-> "fail_workflow", consulted |-> FALSE])
    /\ [][(/\ pc = "handle_failure"
           /\ Retryable(tasks, failed_tasks) # <<>>
           /\ HandledTask.retry_count >= policy_max_retries(context))
          => /\ ~advisor_consulted'
             /\ context'.status = "failed"
             /\ tasks' = tasks]_vars

\* HandleFailure has just met the ceiling on a task the Driver would still
\* retry: the workflow is failed and the advisor was not asked
C13_Witness ==
    /\ pc = "decide"
    /\ context.status = "failed"
    /\ context.completed_at = Now("handle_failure")
    /\ ~advisor_consulted
    /\ next_tasks = <<>>
    /\ Retryable(tasks, failed_tasks) # <<>>
    /\ execution_history # <<>>
    /\ HandledTask.retry_count >= policy_max_retries(context)

\* C14: when retry_count < max_retries and the advisor is unavailable or its
\* reply is no decision with one of the four actions, HandleFailure applies
\* retry; the step neither aborts the run nor ends without a decision.
C14_AdvisorFailureFallsBackToRetry ==
    [][(/\ pc = "handle_failure"
        /\ advisor_consulted'
        /\ advisor_reply' \notin DecisionActions)
       => /\ pc' = "decide"
          /\ TaskOf(tasks', HandledTask.task_id).status = RETRYING
          /\ TaskOf(tasks', HandledTask.task_id).retry_count =
               HandledTask.retry_count + 1]_vars

\* C15: when HandleFailure gets the decision retry for a Failed task with
\* retry_count = n < max_retries, the task is Retrying afterwards, with
\* retry_count = n + 1 and error = null, out of failed_tasks and in next_tasks.
C15_RetryEffect ==
    [][(/\ pc = "handle_failure"
        /\ advisor_consulted'
        /\ advisor_reply' \in {"retry", Unavailable})
       => LET id == HandledTask.task_id
              after == TaskOf(tasks', id)
          IN  /\ HandledTask.status = FAILED
              /\ HandledTask.retry_count < policy_max_retries(context)
              /\ after.status = RETRYING
              /\ after.retry_count = HandledTask.retry_count + 1
              /\ after.error = None
              /\ id \notin ToSet(failed_tasks')
              /\ id \in ToSet(next_tasks')]_vars

\* a retry was just applied to one task while another task stays failed
C15_Witness ==
    /\ advisor_consulted
    /\ advisor_reply = "retry"
    /\ failed_tasks # <<>>
    /\ \E i \in DOMAIN tasks :
         /\ tasks[i].status = RETRYING
         /\ tasks[i].retry_count = 1
         /\ next_tasks = <<tasks[i].task_id>>

\* C16: while a task is Skipped it is in neither failed_tasks nor
\* completed_tasks, and no task that lists it as a dependency is dispatched.
C16_SkippedBlocksDependents ==
    /\ [](\A i \in DOMAIN tasks :
            tasks[i].status = SKIPPED =>
                /\ tasks[i].task_id \notin ToSet(failed_tasks)
                /\ tasks[i].task_id \notin ToSet(completed_tasks))
    /\ [][Dispatched =>
            \A i \in DOMAIN tasks :
                tasks[i].status = SKIPPED =>
                    tasks[i].task_id \notin TaskOf(tasks, DispatchedId).dependencies]_vars

\* Execute is about to dispatch while a Skipped task has a pending dependent
C16_Witness ==
    /\ pc = "execute"
    /\ \E i, j \in DOMAIN tasks :
         /\ tasks[i].status = SKIPPED
         /\ tasks[i].task_id \in tasks[j].dependencies
         /\ tasks[j].status = PENDING
         /\ tasks[j].task_id \notin ToSet(next_tasks)

\* the plan is a DAG over its own tasks: every dependency is a task and the
\* tasks can be ranked so that each one ranks above its dependencies
WellFormedPlan ==
    /\ \A i \in DOMAIN tasks : tasks[i].dependencies \subseteq ToSet(Keys(tasks))
    /\ \E rank \in [ToSet(Keys(tasks)) -> 1..Len(tasks)] :
         \A i \in DOMAIN tasks :
             \A dep \in tasks[i].dependencies : rank[dep] < rank[tasks[i].task_id]

\* the ids dispatched so far, in dispatch order
DispatchOrder == [k \in DOMAIN execution_history |-> execution_history[k].task_id]

\* C17: for an acyclic plan whose dependencies are all tasks and whose every
\* dispatch succeeds, each task is dispatched once, after all its
\* dependencies, and the run ends at Complete with status "completed" and
\* every task Completed.
C17_SuccessfulRun ==
    /\ []((WellFormedPlan /\ FailedCount(execution_history) = 0 /\ errors = <<>>) =>
            /\ pc \notin {"handle_failure", "crashed"}
            /\ NoDuplicates(DispatchOrder)
            /\ \A k \in DOMAIN DispatchOrder :
                 TaskOf(tasks, DispatchOrder[k]).dependencies
                     \subseteq {DispatchOrder[j] : j \in 1..(k - 1)}
            /\ pc \in {"complete", "END"} =>
                 /\ \A i \in DOMAIN tasks : tasks[i].status = COMPLETED
                 /\ ToSet(DispatchOrder) = ToSet(Keys(tasks))
            /\ pc = "END" => context.status = "completed")
    /\ <>(pc = "END" \/ FailedCount(execution_history) > 0)

\* the run of A, B (deps A), C (deps A, B) ended with every dispatch successful
C17_Witness ==
    /\ pc = "END"
    /\ Len(tasks) = 3
    /\ tasks[1].dependencies = {}
    /\ tasks[2].dependencies = {"A"}
    /\ tasks[3].dependencies = {"A", "B"}
    /\ DispatchOrder = <<"A", "B", "C">>
    /\ context.status = "completed"

\* C18: when the Planner fails, the Plan step adds exactly one entry with
\* step = "plan" to errors and sets context.status = "failed"; no task is
\* created or dispatched, and the run finishes at Complete with "failed".
C18_PlannerFailure ==
    /\ [](errors # <<>> =>
            /\ Len(errors) = 1
            /\ errors[1].step = "plan"
            /\ context.status = "failed"
            /\ tasks = <<>>
            /\ execution_history = <<>>
            /\ pc \in {"decide", "complete", "END"})
    /\ (errors # <<>> ~> (pc = "END" /\ context.status = "failed"))

\* the run ended after a Planner failure
C18_Witness ==
    /\ pc = "END"
    /\ errors # <<>>
    /\ context.completed_at = Now("complete")

\* the position of a task in the insertion order of tasks
IndexOf(ts, id) == CHOOSE i \in DOMAIN ts : ts[i].task_id = id

\* the list a Decide step leaves in next_tasks for the given state
ReadyList(ts, completed, failed) ==
    LET available == Available(ts, completed, failed)
    IN  IF available = <<>>
        THEN <<>>
        ELSE decide_next_tasks(ts, completed, failed, available)

\* C19: the list Decide computes holds exactly the ids that are not in
\* completed_tasks, not in failed_tasks and whose dependencies are all in
\* completed_tasks, in the insertion order of tasks; decide_next_tasks
\* returns the available list unchanged.
C19_ReadyList ==
    [][pc = "decide" =>
         /\ ToSet(next_tasks') =
              {id \in ToSet(Keys(tasks)) :
                  /\ id \notin ToSet(completed_tasks)
                  /\ id \notin ToSet(failed_tasks)
                  /\ \A dep \in TaskOf(tasks, id).dependencies :
                       dep \in ToSet(completed_tasks)}
         /\ \A a, b \in DOMAIN next_tasks' :
              a < b => IndexOf(tasks, next_tasks'[a]) < IndexOf(tasks, next_tasks'[b])
         /\ decide_next_tasks(tasks, completed_tasks, failed_tasks,
                              Available(tasks, completed_tasks, failed_tasks))
              = Available(tasks, completed_tasks, failed_tasks)]_vars

\* Decide listed two ready tasks after a first task completed
C19_Witness ==
    /\ pc = "execute"
    /\ Len(next_tasks) = 2
    /\ Len(completed_tasks) = 1
    /\ advisor_reply = None

\* C20: a Decide step changes no field other than next_tasks, and computing
\* the list again on the state it leaves gives the same list.
C20_DecideIsPure ==
    [][pc = "decide" =>
         /\ UNCHANGED <<tasks, completed_tasks, failed_tasks, execution_history,
                        memory, errors, context, current_task>>
         /\ next_tasks' = ReadyList(tasks', completed_tasks', failed_tasks')]_vars

\* Decide has run on a state with a completed, a failed and a ready task and
\* with current_task left set by a retry
C20_Witness ==
    /\ pc = "execute"
    /\ completed_tasks # <<>>
    /\ failed_tasks # <<>>
    /\ memory # EmptyDict
    /\ \E i \in DOMAIN tasks : tasks[i].status = RETRYING
    /\ current_task # None

\* ActionExecutor.execute has ended without success: its Result is an error,
\* or (were it to let one through) an exception has reached execute_task
DispatchFailed ==
    /\ pc = "dispatched"
    /\ dispatch.outcome.raised \/ dispatch.outcome.status = "error"

\* C21: every dispatch that does not succeed, an exception raised inside the
\* Action Dispatcher included, leaves the dispatched task Failed with an error
\* string and no result and its id appended to failed_tasks, and control goes
\* to Decide; completed_tasks and memory are as before the Execute step.
C21_FailedDispatch ==
    [][DispatchFailed =>
         LET id == next_tasks[1]
             after == TaskOf(tasks', id)
         IN  /\ after.status = FAILED
             /\ after.error # None
             /\ after.error = dispatch.outcome.error
             /\ after.result = None
             /\ failed_tasks' = Append(failed_tasks, id)
             /\ pc' = "decide"
             /\ completed_tasks' = completed_tasks
             /\ memory' = memory]_vars

\* a read of a missing file raised inside the dispatcher and failed the task
C21_Witness ==
    /\ pc = "decide"
    /\ dispatch.action_type = "file_operation"
    /\ tasks[1].status = FAILED
    /\ tasks[1].error = "File not found: /data/report"
    /\ failed_tasks = <<PlanIds[1]>>

\* how often a task was dispatched so far
DispatchesOf(id) ==
    Cardinality({k \in DOMAIN execution_history : execution_history[k].task_id = id})

\* C22: when the metadata gives max_retries = M, a task whose every dispatch
\* failed and whose every failure was answered by retry has been retried M
\* times (dispatched M + 1 times) when the run ends, whatever the max_retries
\* of the settings is.
C22_MetadataBudgetIsUsed ==
    (/\ pc = "END"
     /\ context.status # "failed"
     /\ "max_retries" \in DOMAIN context.metadata)
    => \A i \in DOMAIN tasks :
         (/\ tasks[i].status = FAILED
          /\ DispatchesOf(tasks[i].task_id) = tasks[i].retry_count + 1)
         => /\ tasks[i].retry_count = context.metadata.max_retries
            /\ DispatchesOf(tasks[i].task_id) = context.metadata.max_retries + 1

\* C23: in every reachable state next_tasks holds only ids of tasks that are
\* in neither completed_tasks nor failed_tasks.
C23_NextTasksArePending ==
    /\ ToSet(next_tasks) \subseteq ToSet(Keys(tasks))
    /\ ToSet(next_tasks) \cap ToSet(completed_tasks) = {}
    /\ ToSet(next_tasks) \cap ToSet(failed_tasks) = {}

\* Execute left a task in next_tasks after one task completed and one failed
C23_Witness ==
    /\ pc = "decide"
    /\ next_tasks # <<>>
    /\ completed_tasks # <<>>
    /\ failed_tasks # <<>>
    /\ current_task = None

\* C24 as claimed: between steps a task's error is non-null iff the task is
\* Failed or Retrying.
C24_ErrorIffFailedOrRetrying ==
    \A i \in DOMAIN tasks :
        tasks[i].error # None <=> tasks[i].status \in {FAILED, RETRYING}

\* C24 as amended: between steps a task's error is non-null iff the task is
\* Failed or Skipped; the retry that makes a task Retrying clears its error,
\* and a skip keeps it.
C24_ErrorIffFailedOrSkipped ==
    \A i \in DOMAIN tasks :
        tasks[i].error # None <=> tasks[i].status \in {FAILED, SKIPPED}

\* a task is Retrying with its error cleared while another task is Failed
C24_Witness ==
    \E i, j \in DOMAIN tasks :
        /\ tasks[i].status = RETRYING
        /\ tasks[i].error = None
        /\ tasks[j].status = FAILED
        /\ tasks[j].error # None

\* C25 as claimed: between steps a task's result is non-null iff the task is
\* Completed.
C25_ResultIffCompleted ==
    \A i \in DOMAIN tasks :
        tasks[i].result # None <=> tasks[i].status = COMPLETED

\* C25 as amended: between steps a task's result is non-null only if the task
\* is Completed, and the result of a Completed task is the data its successful
\* dispatch returned, which is null when the action returned null.
C25_ResultOnlyIfCompleted ==
    \A i \in DOMAIN tasks :
        /\ tasks[i].result # None => tasks[i].status = COMPLETED
        /\ tasks[i].status = COMPLETED =>
             /\ tasks[i].result = dispatch.outcome.data
             /\ \E k \in DOMAIN execution_history :
                  /\ execution_history[k].task_id = tasks[i].task_id
                  /\ execution_history[k].status = "success"
                  /\ execution_history[k].result = tasks[i].result

\* a transform of the JSON text null completed its task with a null result
C25_Witness ==
    /\ tasks[1].status = COMPLETED
    /\ tasks[1].result = None
    /\ dispatch.action_type = "transform_data"
    /\ "input" \in DOMAIN dispatch.action_config
    /\ dispatch.action_config["input"] = JsonNull

\* C26: context.completed_at is written exactly once in a run, at the step
\* that makes context.status terminal: it is null while the status is
\* "running", set once the status is terminal, and never assigned again.
C26_CompletedAtWrittenOnce ==
    /\ [](context.status = "running" => context.completed_at = None)
    /\ [](context.status \in TerminalStatus => context.completed_at # None)
    /\ [][context.completed_at # None =>
            context'.completed_at = context.completed_at]_vars

\* C27: the dispatch of an action type that is none of the five known ones
\* returns a Result with status "error" whose message is the unknown-action
\* message followed by the offending tag; no exception reaches the caller.
C27_UnknownAction ==
    (pc = "dispatched" /\ dispatch.action_type \notin ActionTypes)
    => /\ ~dispatch.outcome.raised
       /\ dispatch.outcome.status = "error"
       /\ dispatch.outcome.error = "Unknown action type: " \o dispatch.action_type
       /\ dispatch.outcome.data = None
       /\ dispatch.attempts = 1

\* the action type "nonexistent" was dispatched
C27_Witness ==
    /\ pc = "dispatched"
    /\ dispatch.action_type = "nonexistent"
    /\ dispatch.outcome.error = "Unknown action type: nonexistent"

\* the config lacks a field its action type requires or holds a value the
\* action type does not support
InvalidConfig(action_type, config) ==
    IF action_type = "api_call"
    THEN \/ "url" \notin DOMAIN config
         \/ Upper(Get(config, "method", "GET")) \notin {"GET", "POST", "PUT", "DELETE"}
    ELSE IF action_type = "db_query"
    THEN "query" \notin DOMAIN config
    ELSE IF action_type = "file_operation"
    THEN \/ "operation" \notin DOMAIN config
         \/ "path" \notin DOMAIN config
         \/ config["operation"] \notin {"read", "write", "delete", "list"}
         \/ config["operation"] = "write" /\ "content" \notin DOMAIN config
    ELSE IF action_type = "transform_data"
    THEN \/ "input" \notin DOMAIN config
         \/ Get(config, "type", "json") # "json"
    ELSE FALSE

\* C28: for every action type, a dispatch whose config fails validation
\* returns an error Result after a single attempt: the Action Dispatcher does
\* not retry it.
C28_ValidationErrorNotRetried ==
    (/\ pc = "dispatched"
     /\ dispatch.action_type \in ActionTypes
     /\ InvalidConfig(dispatch.action_type, dispatch.action_config))
    => /\ dispatch.outcome.status = "error"
       /\ dispatch.attempts = 1

\* C29: after a Decide step control goes to Execute iff some task is ready,
\* else to HandleFailure iff a task in failed_tasks has retry_count below the
\* Driver's max_retries, else to Complete; HandleFailure is entered only when
\* no task is ready.
C29_DecideRouting ==
    /\ [][pc = "decide" =>
            LET ready == ReadyList(tasks, completed_tasks, failed_tasks)
            IN  pc' = IF ready # <<>> THEN "execute"
                      ELSE IF \E id \in ToSet(failed_tasks) :
                                TaskOf(tasks, id).retry_count < settings.max_retries
                      THEN "handle_failure"
                      ELSE "complete"]_vars
    /\ [](pc = "handle_failure" =>
            /\ next_tasks = <<>>
            /\ ReadyList(tasks, completed_tasks, failed_tasks) = <<>>)

\* HandleFailure was entered after a task completed and while a task that
\* depends on the failed one stays pending
C29_Witness ==
    /\ pc = "handle_failure"
    /\ completed_tasks # <<>>
    /\ \E i \in DOMAIN tasks :
         /\ tasks[i].status = PENDING
         /\ tasks[i].dependencies \cap ToSet(failed_tasks) # {}

\* C30: each Execute step dispatches one task, the first id of next_tasks
\* (the first ready task in insertion order), changes no other task, and
\* appends one entry with that task_id and its outcome to execution_history;
\* no step removes, rewrites or reorders the earlier entries.
C30_OneDispatchPerExecute ==
    /\ [][pc = "execute" =>
            /\ next_tasks # <<>>
            /\ next_tasks[1] = ReadyList(tasks, completed_tasks, failed_tasks)[1]
            /\ Len(execution_history') = Len(execution_history) + 1
            /\ LET id == next_tasks[1]
                   entry == execution_history'[Len(execution_history')]
                   after == TaskOf(tasks', id)
               IN  /\ entry.task_id = id
                   /\ IF entry.status = "success"
                      THEN after.status = COMPLETED /\ entry.result = after.result
                      ELSE /\ entry.status = "failed"
                           /\ after.status = FAILED
                           /\ entry.error = after.error
                   /\ \A i \in DOMAIN tasks :
                        tasks[i].task_id # id => tasks'[i] = tasks[i]]_vars
    /\ [][/\ Len(execution_history') >= Len(execution_history)
          /\ \A k \in DOMAIN execution_history :
               execution_history'[k] = execution_history[k]]_vars

\* the second of three ready tasks was dispatched and failed after the first
\* one succeeded
C30_Witness ==
    /\ pc = "decide"
    /\ Len(execution_history) = 2
    /\ execution_history[1].status = "success"
    /\ execution_history[2].status = "failed"
    /\ execution_history[2].task_id = PlanIds[2]
    /\ next_tasks = <<PlanIds[3]>>

\* C31: between the steps a task id is in completed_tasks iff the task is
\* Completed iff memory holds the key task_<task_id>_result, and a Completed
\* task has no error; the Execute step of a successful dispatch establishes
\* all of these for the dispatched task.
C31_CompletedIsRecorded ==
    /\ [](\A i \in DOMAIN tasks :
            LET id == tasks[i].task_id
            IN  /\ id \in ToSet(completed_tasks) <=> tasks[i].status = COMPLETED
                /\ tasks[i].status = COMPLETED <=> MemKey(id) \in DOMAIN memory
                /\ tasks[i].status = COMPLETED => tasks[i].error = None)
    /\ [][(/\ Dispatched
           /\ execution_history'[Len(execution_history')].status = "success") =>
            /\ DispatchedId \notin ToSet(completed_tasks)
            /\ MemKey(DispatchedId) \notin DOMAIN memory
            /\ DispatchedId \in ToSet(completed_tasks')
            /\ TaskOf(tasks', DispatchedId).status = COMPLETED
            /\ TaskOf(tasks', DispatchedId).error = None
            /\ MemKey(DispatchedId) \in DOMAIN memory']_vars

\* a task that failed and was skipped, keeping its error, was dispatched again
\* and succeeded beside a task that is not completed
C31_Witness ==
    /\ \E i, j \in DOMAIN execution_history :
         /\ i < j
         /\ execution_history[i].task_id = execution_history[j].task_id
         /\ execution_history[i].status = "failed"
         /\ execution_history[j].status = "success"
         /\ TaskOf(tasks, execution_history[j].task_id).retry_count = 0
    /\ \E i \in DOMAIN tasks : tasks[i].status # COMPLETED

\* the position in failed_tasks of the first task with retry budget left
\* (retry_count below the Driver's max_retries), 0 when there is none
FirstRetryable ==
    LET budget(k) == TaskOf(tasks, failed_tasks[k]).retry_count < settings.max_retries
    IN  IF \E k \in DOMAIN failed_tasks : budget(k)
        THEN CHOOSE k \in DOMAIN failed_tasks :
               budget(k) /\ \A j \in 1..(k - 1) : ~budget(j)
        ELSE 0

\* C33: each HandleFailure step applies the Retry/Failure Policy to exactly
\* one task, the first id of failed_tasks (failure order) whose retry_count is
\* below max_retries, and leaves every other task, completed_tasks, memory,
\* errors and execution_history unchanged.
C33_HandleFailureFrame ==
    [][pc = "handle_failure" =>
         /\ FirstRetryable # 0
         /\ LET id == failed_tasks[FirstRetryable]
                before == TaskOf(tasks, id)
                after == TaskOf(tasks', id)
            IN  /\ \A i \in DOMAIN tasks :
                     tasks[i].task_id # id => tasks'[i] = tasks[i]
                /\ \A k \in DOMAIN failed_tasks :
                     failed_tasks[k] # id => failed_tasks[k] \in ToSet(failed_tasks')
                /\ \/ /\ after = [before EXCEPT !.retry_count = @ + 1,
                                                !.status = RETRYING,
                                                !.error = None]
                      /\ id \notin ToSet(failed_tasks')
                   \/ /\ after = [before EXCEPT !.status = SKIPPED]
                      /\ id \notin ToSet(failed_tasks')
                   \/ /\ after = before
                      /\ failed_tasks' = failed_tasks
                      /\ context'.status = "failed" \/ pc' = "crashed"
         /\ UNCHANGED <<completed_tasks, memory, errors, execution_history>>]_vars

\* two tasks failed and the older failure was the one retried: the newer one
\* is still in failed_tasks, untouched
C33_Witness ==
    /\ pc = "decide"
    /\ Len(execution_history) = 2
    /\ execution_history[1].status = "failed"
    /\ execution_history[2].status = "failed"
    /\ execution_history[1].task_id # execution_history[2].task_id
    /\ TaskOf(tasks, execution_history[1].task_id).status = RETRYING
    /\ failed_tasks = <<execution_history[2].task_id>>
    /\ TaskOf(tasks, execution_history[2].task_id).retry_count = 0

C35_RetryIsDispatchedNext ==
    /\ [][(/\ pc = "handle_failure"
           /\ \E i \in DOMAIN tasks :
                tasks[i].status # RETRYING /\ tasks'[i].status = RETRYING) =>
            /\ pc' = "decide"
            /\ Cardinality({i \in DOMAIN tasks' : tasks'[i].status = RETRYING}) = 1]_vars
    /\ [][\A i \in DOMAIN tasks :
            tasks[i].status = RETRYING =>
              \/ /\ pc = "decide"
                 /\ pc' = "execute"
                 /\ next_tasks' = <<tasks[i].task_id>>
                 /\ execution_history' = execution_history
                 /\ tasks' = tasks
              \/ /\ pc = "execute"
                 /\ Dispatched
                 /\ DispatchedId = tasks[i].task_id
                 /\ tasks'[i].status # RETRYING]_vars

\* the older of two failures was retried and dispatched again before anything
\* else, while the newer failure is still waiting in failed_tasks
C35_Witness ==
    /\ Len(execution_history) = 3
    /\ execution_history[1].status = "failed"
    /\ execution_history[2].status = "failed"
    /\ execution_history[3].task_id = execution_history[1].task_id
    /\ execution_history[2].task_id # execution_history[1].task_id
    /\ TaskOf(tasks, execution_history[1].task_id).retry_count = 1
    /\ execution_history[2].task_id \in ToSet(failed_tasks)
    /\ \E i \in DOMAIN tasks : tasks[i].status = PENDING

\* C36: in any run each task is dispatched at most max_retries + 1 times: no
\* task_id has more than max_retries + 1 entries in execution_history,
\* whatever the dispatch outcomes and the advisor decisions are.  Stated for
\* the runs in which the metadata and the settings give the same max_retries.
C36_DispatchesBounded ==
    ("max_retries" \in DOMAIN context.metadata
       /\ context.metadata.max_retries = settings.max_retries)
    => \A i \in DOMAIN tasks :
         DispatchesOf(tasks[i].task_id) <= settings.max_retries + 1

\* the fields of the state by type
MapFields == {"tasks", "memory", "context"}
ListFields == {"completed_tasks", "failed_tasks", "next_tasks", "execution_history"}

\* C32: when the partial update of a step is merged into the aggregate state,
\* every key of a map-typed field (tasks, memory, context) that the update
\* does not hold keeps its value (and the keys it holds take the update's
\* values), a list-typed field of the update (completed_tasks, failed_tasks,
\* next_tasks, execution_history) is replaced by the returned list, and a
\* field that the update does not hold is unchanged.
C32_MergeRule ==
    [][chunks' = chunks + 1 =>
         /\ DOMAIN final_state' = DOMAIN final_state
         /\ \A key \in DOMAIN final_state :
              IF key \notin DOMAIN node_state'
              THEN final_state'[key] = final_state[key]
              ELSE IF key \in ListFields
              THEN final_state'[key] = node_state'[key]
              ELSE key \in MapFields =>
                   /\ final_state'[key].type = "dict"
                   /\ DOMAIN final_state'[key].items =
                        DOMAIN final_state[key].items \cup DOMAIN node_state'[key].items
                   /\ \A k \in DOMAIN final_state'[key].items :
                        final_state'[key].items[k] =
                          IF k \in DOMAIN node_state'[key].items
                          THEN node_state'[key].items[k]
                          ELSE final_state[key].items[k]]_vars

\* an update of two fields was merged into the aggregate of a run under way:
\* tasks holds the returned key beside the key it had, next_tasks is the
\* returned list and no longer the old one, memory was not in the update
C32_Witness ==
    /\ chunks = 1
    /\ DOMAIN node_state = {"tasks", "next_tasks"}
    /\ node_state.tasks.items = (PlanIds[2] :> PENDING)
    /\ final_state.tasks.items = (PlanIds[1] :> COMPLETED) @@ (PlanIds[2] :> PENDING)
    /\ node_state.next_tasks.items = <<PlanIds[2]>>
    /\ final_state.next_tasks.items = <<PlanIds[2]>>
    /\ final_state.memory.items = (MemKey(PlanIds[1]) :> Data)
    /\ final_state.completed_tasks.items = <<PlanIds[1]>>

====
